---- MODULE Spec2Model ----
(***************************************************************************)
(* File-system service discovery of dubbo-go (registry/file):              *)
(*   - newFileSystemServiceDiscovery: the constructor registered with the  *)
(*     extension point, its package-level instanceMap and initLock;        *)
(*   - fileSystemServiceDiscovery: Register / Update / Unregister /        *)
(*     Destroy / GetServices / GetInstances / AddListener / DispatchEvent  *)
(*     over a file-backed configuration store (<root>/<group>/<key>).      *)
(***************************************************************************)
EXTENDS Integers, Sequences, FiniteSets, TLC

VARIABLES
    instanceMap,        \* package var instanceMap: name -> client reference
    initLock,           \* package var initLock: 0 = free, c = held by caller c
    held,               \* instanceMap as it was when initLock was last acquired
    pc,                 \* per caller: position inside newFileSystemServiceDiscovery
    arg,                \* per caller: the name the running call was given
    cur,                \* per caller: local sd (client reference, 0 = none yet)
    did,                \* per caller: what the running call has done so far
    result,             \* per caller: what the last call returned
    ncalls,             \* number of constructor calls started so far
    clients,            \* the allocated fileSystemServiceDiscovery objects
    shutdownCallbacks,  \* extension's custom shutdown callbacks (client refs)
    store,              \* the directory tree: group -> (key -> file content)
    ret,                \* what the last call on a client returned
    mine,               \* per client: records it registered and has not unregistered
    subscribed,         \* service names for which AddListener returned nil
    pending,            \* subscribed service names changed and not notified since
    work,               \* per goroutine: the call on the client it is executing
    mc,                 \* the MetricConfig
    metricRet           \* what the last call on the MetricConfig returned

vars == <<instanceMap, initLock, held, pc, arg, cur, did, result, ncalls,
          clients, shutdownCallbacks, store, ret, mine, subscribed, pending,
          work, mc, metricRet>>

ctorVars == <<instanceMap, initLock, held, pc, arg, cur, did, result, ncalls, shutdownCallbacks>>

eventVars == <<subscribed, pending>>

auxVars == <<work, mc, metricRet>>

(***************************************************************************)
(* Bounds and universes of values                                          *)
(***************************************************************************)
NumCallers == 2
MaxCalls == 2

Callers == 1..NumCallers
Services == {"S1", "S2"}
Ids == {"", "a"}
Hosts == {"h1"}
Ports == {20880}
Metas == { <<>>, << <<"k", "v1">> >> }

\* the health flag and metadata an instance is registered with
Payloads == {[Healthy |-> TRUE, Metadata |-> <<>>],
             [Healthy |-> FALSE, Metadata |-> << <<"k", "v1">> >>]}

\* registry.ServiceInstance values (DefaultServiceInstance)
Instances ==
    {[Id |-> i, ServiceName |-> s, Host |-> h, Port |-> p,
      Healthy |-> v.Healthy, Metadata |-> v.Metadata] :
        i \in Ids, s \in Services, h \in Hosts, p \in Ports, v \in Payloads}

(***************************************************************************)
(* Maps (Go map[string]T) as functions with a finite domain                *)
(***************************************************************************)
EmptyMap == [k \in {} |-> k]
MapPut(m, k, v) == [x \in (DOMAIN m) \cup {k} |-> IF x = k THEN v ELSE m[x]]
MapDel(m, k) == [x \in (DOMAIN m) \ {k} |-> m[x]]

(***************************************************************************)
(* strconv.Itoa and the instance id / service name                         *)
(***************************************************************************)
Digits == <<"0", "1", "2", "3", "4", "5", "6", "7", "8", "9">>

RECURSIVE Itoa(_)
Itoa(n) == IF n < 10 THEN Digits[n + 1] ELSE Itoa(n \div 10) \o Digits[(n % 10) + 1]

\* an id derivation that leaves out the separator
getServiceInstanceIdNoDot(si) ==
    IF si.Id = "" THEN si.Host \o Itoa(si.Port) ELSE si.Id

getServiceInstanceId(si) ==
    IF si.Id = "" THEN si.Host \o "." \o Itoa(si.Port) ELSE si.Id

getServiceName(si) == si.ServiceName

Keys == {getServiceInstanceId(si) : si \in Instances}

(***************************************************************************)
(* json.Marshal / json.Unmarshal of a DefaultServiceInstance.  A document  *)
(* is the sequence name1, text1, name2, text2, ... of its members.         *)
(***************************************************************************)
Quote(s) == "\"" \o s \o "\""
BoolText(b) == IF b THEN "true" ELSE "false"

RECURSIVE MetaMembers(_)
MetaMembers(m) ==
    IF m = <<>> THEN ""
    ELSE Quote(m[1][1]) \o ":" \o Quote(m[1][2])
         \o (IF Len(m) > 1 THEN "," ELSE "") \o MetaMembers(Tail(m))

MetaText(m) == "{" \o MetaMembers(m) \o "}"

Marshal(si) ==
    << "Id", Quote(si.Id), "ServiceName", Quote(si.ServiceName),
       "Host", Quote(si.Host), "Port", Itoa(si.Port),
       "Healthy", BoolText(si.Healthy), "Metadata", MetaText(si.Metadata) >>

\* a getContent that loses the health flag
getContentNoHealthy(si) ==
    << "Id", Quote(si.Id), "ServiceName", Quote(si.ServiceName),
       "Host", Quote(si.Host), "Port", Itoa(si.Port),
       "Metadata", MetaText(si.Metadata) >>

\* getContent: json string
getContent(si) == Marshal(si)

\* a file whose content is no JSON document
Garbage == << "{" >>

StringTexts == Ids \cup Services \cup Hosts \cup Keys
PortValues == Ports \cup {0}

\* index of the last member called name, 0 when there is none
MemberAt(doc, name) ==
    LET hits == {i \in 1..Len(doc) : i % 2 = 1 /\ doc[i] = name}
    IN  IF hits = {} THEN 0 ELSE CHOOSE i \in hits : \A j \in hits : j <= i

MemberOK(doc, name, texts) ==
    MemberAt(doc, name) = 0 \/ doc[MemberAt(doc, name) + 1] \in texts

\* json.Unmarshal(doc, &DefaultServiceInstance{}) returns no error
UnmarshalOK(doc) ==
    /\ Len(doc) % 2 = 0
    /\ MemberOK(doc, "Id", {Quote(s) : s \in StringTexts})
    /\ MemberOK(doc, "ServiceName", {Quote(s) : s \in StringTexts})
    /\ MemberOK(doc, "Host", {Quote(s) : s \in StringTexts})
    /\ MemberOK(doc, "Port", {Itoa(p) : p \in PortValues})
    /\ MemberOK(doc, "Healthy", {"true", "false"})
    /\ MemberOK(doc, "Metadata", {MetaText(m) : m \in Metas})

StringMember(doc, name) ==
    IF MemberAt(doc, name) = 0 THEN ""
    ELSE CHOOSE s \in StringTexts : Quote(s) = doc[MemberAt(doc, name) + 1]

\* the value json.Unmarshal leaves in the instance (zero value for a missing member)
Unmarshal(doc) ==
    [Id |-> StringMember(doc, "Id"),
     ServiceName |-> StringMember(doc, "ServiceName"),
     Host |-> StringMember(doc, "Host"),
     Port |-> IF MemberAt(doc, "Port") = 0 THEN 0
              ELSE CHOOSE p \in PortValues : Itoa(p) = doc[MemberAt(doc, "Port") + 1],
     Healthy |-> IF MemberAt(doc, "Healthy") = 0 THEN FALSE
                 ELSE doc[MemberAt(doc, "Healthy") + 1] = "true",
     Metadata |-> IF MemberAt(doc, "Metadata") = 0 THEN <<>>
                  ELSE CHOOSE m \in Metas : MetaText(m) = doc[MemberAt(doc, "Metadata") + 1]]

(***************************************************************************)
(* The file-backed configuration store: one directory per group, one file  *)
(* per key.  A path is the pair <<group, key>> under the root.             *)
(***************************************************************************)
GetPath(key, group) == <<group, key>>

GroupFiles(st, group) == IF group \in DOMAIN st THEN st[group] ELSE EmptyMap

\* PublishConfig creates the group directory when absent and (over)writes the file
PublishConfig(st, key, group, content) ==
    MapPut(st, group, MapPut(GroupFiles(st, group), key, content))

\* RemoveConfig deletes the file; an absent file is no error; the directory stays
RemoveConfig(st, key, group) ==
    IF group \in DOMAIN st THEN MapPut(st, group, MapDel(st[group], key)) ELSE st

GetConfigKeysByGroup(st, group) == DOMAIN GroupFiles(st, group)

HasRecord(st, key, group) == key \in GetConfigKeysByGroup(st, group)

\* os.Remove(path)
OsRemove(st, path) == RemoveConfig(st, path[2], path[1])

RECURSIVE OsRemoveAll(_, _)
OsRemoveAll(st, paths) ==
    IF paths = {} THEN st
    ELSE LET p == CHOOSE q \in paths : TRUE
         IN  OsRemoveAll(OsRemove(st, p), paths \ {p})

\* the orders in which a set can be iterated
Orders(S) ==
    {s \in [1..Cardinality(S) -> S] : \A i, j \in 1..Cardinality(S) : s[i] = s[j] => i = j}

MapValues(m) == {m[k] : k \in DOMAIN m}

(***************************************************************************)
(* Discovery: GetServices and GetInstances                                 *)
(***************************************************************************)
\* GetServices: the names of the directories under the root
GetServices(st) == DOMAIN st

\* the loop of GetInstances over the keys ks (in iteration order); the reads of
\* the keys in readFails fail
\* a loop that gives up at the first record it cannot read or decode
RECURSIVE CollectInstancesStopAtFirst(_, _, _, _)
CollectInstancesStopAtFirst(st, serviceName, ks, readFails) ==
    IF ks = <<>> THEN <<>>
    ELSE LET id == Head(ks)
         IN  IF id \in readFails THEN <<>>
             ELSE IF ~UnmarshalOK(st[serviceName][id]) THEN <<>>
             ELSE <<Unmarshal(st[serviceName][id])>>
                    \o CollectInstancesStopAtFirst(st, serviceName, Tail(ks), readFails)

RECURSIVE CollectInstances(_, _, _, _)
CollectInstances(st, serviceName, ks, readFails) ==
    IF ks = <<>> THEN <<>>
    ELSE LET id == Head(ks)
             rest == CollectInstances(st, serviceName, Tail(ks), readFails)
         IN  IF id \in readFails THEN rest
             ELSE IF ~UnmarshalOK(st[serviceName][id]) THEN rest
             ELSE <<Unmarshal(st[serviceName][id])>> \o rest

GetInstances(st, serviceName, ks, readFails, listErr) ==
    IF listErr THEN <<>> ELSE CollectInstances(st, serviceName, ks, readFails)

\* whether the slice GetInstances returns is nil: both branches return make(...)
GetInstancesIsNil(listErr) == FALSE

SeqRange(s) == {s[i] : i \in 1..Len(s)}

\* every list GetInstances can return when no read fails, whatever the iteration order
Listings(st, serviceName) ==
    {GetInstances(st, serviceName, ks, {}, FALSE) :
        ks \in Orders(GetConfigKeysByGroup(st, serviceName))}

(***************************************************************************)
(* fileSystemServiceDiscovery: the client object and the value a call      *)
(* returns or throws                                                       *)
(***************************************************************************)
\* name: the name the client was constructed for; listeners: the (key, group)
\* pairs a RegistryConfigurationListener is attached to in the store
NewClient(name) ==
    [name |-> name, fileMap |-> EmptyMap, listeners |-> {}, destroyed |-> FALSE]

NoRet ==
    [op |-> "", cl |-> 0, inst |-> <<>>, sn |-> "", err |-> "", fault |-> "",
     prev |-> <<>>, out |-> <<>>, failed |-> {}, nil |-> FALSE]

\* the content of the file of (key, group) as a sequence of at most one document
FileAt(st, key, group) == IF HasRecord(st, key, group) THEN <<st[group][key]>> ELSE <<>>

Live(cl) == cl \in 1..Len(clients) /\ ~clients[cl].destroyed

(***************************************************************************)
(* Register and Update                                                     *)
(***************************************************************************)
\* a Register that keeps an existing record instead of overwriting it
RegisterStoreKeepFirst(st, instance) ==
    IF HasRecord(st, getServiceInstanceId(instance), getServiceName(instance)) THEN st
    ELSE PublishConfig(st, getServiceInstanceId(instance), getServiceName(instance),
                       getContent(instance))

\* Register: what the successful PublishConfig leaves in the store
RegisterStore(st, instance) ==
    PublishConfig(st, getServiceInstanceId(instance), getServiceName(instance),
                  getContent(instance))

\* Register: fssd.fileMap[id] = fssd.dynamicConfiguration.GetPath(id, sn)
RegisterFileMap(fm, instance) ==
    MapPut(fm, getServiceInstanceId(instance),
           GetPath(getServiceInstanceId(instance), getServiceName(instance)))

\* io: "ok", "marshal" (json.Marshal fails) or "publish" (PublishConfig fails)
\* a Register that tracks the file before it knows the write succeeded
RegisterAsEager(op, cl, instance, io) ==
    /\ Live(cl)
    /\ ret' = [NoRet EXCEPT !.op = op, !.cl = cl, !.inst = <<instance>>,
                            !.sn = getServiceName(instance), !.fault = io,
                            !.err = IF io = "ok" THEN "" ELSE io,
                            !.prev = FileAt(store, getServiceInstanceId(instance),
                                            getServiceName(instance))]
    /\ clients' = [clients EXCEPT ![cl].fileMap = RegisterFileMap(@, instance)]
    /\ IF io = "ok"
       THEN /\ store' = RegisterStore(store, instance)
            /\ mine' = [mine EXCEPT ![cl] = @ \cup
                            {<<getServiceName(instance), getServiceInstanceId(instance)>>}]
            /\ pending' = pending \cup ({getServiceName(instance)} \cap subscribed)
       ELSE UNCHANGED <<store, mine, pending>>
    /\ UNCHANGED <<auxVars, ctorVars, subscribed>>

RegisterAs(op, cl, instance, io) ==
    /\ Live(cl)
    /\ ret' = [NoRet EXCEPT !.op = op, !.cl = cl, !.inst = <<instance>>,
                            !.sn = getServiceName(instance), !.fault = io,
                            !.err = IF io = "ok" THEN "" ELSE io,
                            !.prev = FileAt(store, getServiceInstanceId(instance),
                                            getServiceName(instance))]
    /\ IF io = "ok"
       THEN /\ store' = RegisterStore(store, instance)
            /\ clients' = [clients EXCEPT ![cl].fileMap = RegisterFileMap(@, instance)]
            /\ mine' = [mine EXCEPT ![cl] = @ \cup
                            {<<getServiceName(instance), getServiceInstanceId(instance)>>}]
            /\ pending' = pending \cup ({getServiceName(instance)} \cap subscribed)
       ELSE UNCHANGED <<store, clients, mine, pending>>
    /\ UNCHANGED <<auxVars, ctorVars, subscribed>>

Register(cl, instance, io) == RegisterAs("Register", cl, instance, io)

\* Update is exactly Register
Update(cl, instance, io) == RegisterAs("Update", cl, instance, io)

(***************************************************************************)
(* Unregister                                                              *)
(***************************************************************************)
\* an Unregister that addresses the store with the raw id
UnregisterStoreRawId(st, instance) ==
    RemoveConfig(st, instance.Id, getServiceName(instance))

\* Unregister: what the successful RemoveConfig leaves in the store
UnregisterStore(st, instance) ==
    RemoveConfig(st, getServiceInstanceId(instance), getServiceName(instance))

\* Unregister: delete(fssd.fileMap, instance.GetId())
UnregisterFileMap(fm, instance) == MapDel(fm, instance.Id)

\* io: "ok" or "remove" (RemoveConfig fails)
Unregister(cl, instance, io) ==
    /\ Live(cl)
    /\ ret' = [NoRet EXCEPT !.op = "Unregister", !.cl = cl, !.inst = <<instance>>,
                            !.sn = getServiceName(instance), !.fault = io,
                            !.err = IF io = "ok" THEN "" ELSE io,
                            !.prev = FileAt(store, getServiceInstanceId(instance),
                                            getServiceName(instance))]
    /\ IF io = "ok"
       THEN /\ store' = UnregisterStore(store, instance)
            /\ clients' = [clients EXCEPT ![cl].fileMap = UnregisterFileMap(@, instance)]
            /\ mine' = [mine EXCEPT ![cl] = @ \
                            {<<getServiceName(instance), getServiceInstanceId(instance)>>}]
            /\ pending' = pending \cup ({getServiceName(instance)} \cap subscribed)
       ELSE UNCHANGED <<store, clients, mine, pending>>
    /\ UNCHANGED <<auxVars, ctorVars, subscribed>>

(***************************************************************************)
(* Destroy                                                                 *)
(***************************************************************************)
\* Destroy: the files left after os.Remove of every tracked path; the removals
\* of the paths in failed fail
DestroyStore(st, fm, failed) == OsRemoveAll(st, MapValues(fm) \ failed)

\* Destroy: the returned error; closeErr is what dynamicConfiguration.Close() returned
DestroyErr(closeErr) == ""

Destroy(cl, closeErr, failed) ==
    /\ Live(cl)
    /\ failed \subseteq MapValues(clients[cl].fileMap)
    /\ ret' = [NoRet EXCEPT !.op = "Destroy", !.cl = cl,
                            !.fault = IF closeErr THEN "close" ELSE "ok",
                            !.err = DestroyErr(closeErr), !.failed = failed]
    /\ store' = DestroyStore(store, clients[cl].fileMap, failed)
    /\ clients' = [clients EXCEPT ![cl].destroyed = TRUE]
    /\ UNCHANGED <<auxVars, ctorVars, mine, eventVars>>

(***************************************************************************)
(* GetInstances as a call on a client                                      *)
(***************************************************************************)
GetInstancesCall(cl, serviceName, ks, readFails, listErr) ==
    /\ Live(cl)
    /\ ks \in Orders(GetConfigKeysByGroup(store, serviceName))
    /\ readFails \subseteq GetConfigKeysByGroup(store, serviceName)
    /\ ret' = [NoRet EXCEPT !.op = "GetInstances", !.cl = cl, !.sn = serviceName,
                            !.fault = IF listErr THEN "list"
                                      ELSE IF readFails # {} THEN "read" ELSE "ok",
                            !.failed = {GetPath(k, serviceName) : k \in readFails},
                            !.nil = GetInstancesIsNil(listErr),
                            !.out = GetInstances(store, serviceName, ks, readFails, listErr)]
    /\ UNCHANGED <<auxVars, ctorVars, clients, store, mine, eventVars>>

(***************************************************************************)
(* Events: AddListener and DispatchEvent*                                  *)
(***************************************************************************)
\* AddListener returns nil and keeps no reference to the listener: the client is
\* left as it was (the call into dynamicConfiguration is commented out)
AddListener(cl, serviceName) ==
    /\ Live(cl)
    /\ ret' = [NoRet EXCEPT !.op = "AddListener", !.cl = cl, !.sn = serviceName]
    /\ subscribed' = subscribed \cup {serviceName}
    /\ UNCHANGED <<auxVars, ctorVars, clients, store, mine, pending>>

\* DispatchEvent hands the event to the global dispatcher, which calls the
\* listeners of the event's service name; a listener has its notification once
\* the event carries the current instance list
DispatchEvent(cl, serviceName, instances) ==
    /\ ret' = [NoRet EXCEPT !.op = "DispatchEvent", !.cl = cl, !.sn = serviceName,
                            !.out = instances]
    /\ pending' = IF instances \in Listings(store, serviceName)
                  THEN pending \ {serviceName} ELSE pending
    /\ UNCHANGED <<auxVars, ctorVars, clients, store, mine, subscribed>>

\* DispatchEventByServiceName: the event of GetInstances(serviceName)
DispatchEventByServiceName(cl, serviceName, ks, readFails, listErr) ==
    /\ Live(cl)
    /\ ks \in Orders(GetConfigKeysByGroup(store, serviceName))
    /\ readFails \subseteq GetConfigKeysByGroup(store, serviceName)
    /\ DispatchEvent(cl, serviceName,
                     GetInstances(store, serviceName, ks, readFails, listErr))

(***************************************************************************)
(* One client, constructed, used by sequential calls                       *)
(***************************************************************************)
NoResult == [client |-> 0, err |-> ""]

\* the goroutines that call one client at the same time
Goroutines == {1, 2}

\* a goroutine that executes no call
Idle == [op |-> "", inst |-> <<>>, step |-> "idle", raced |-> FALSE]

\* &MetricConfig{}: the zero value
ZeroMetricConfig == [GlobalInterval |-> 0, LevelIntervalNil |-> TRUE, LevelInterval |-> EmptyMap]

NoMetricRet == [op |-> "", level |-> 0, out |-> 0]

\* no goroutine runs a call on a client, and the metric configuration is not used
AuxInit ==
    /\ work = [g \in Goroutines |-> Idle]
    /\ mc = ZeroMetricConfig
    /\ metricRet = NoMetricRet

ClientInit ==
    /\ instanceMap = EmptyMap
    /\ initLock = 0
    /\ held = EmptyMap
    /\ pc = [c \in Callers |-> "idle"]
    /\ arg = [c \in Callers |-> ""]
    /\ cur = [c \in Callers |-> 0]
    /\ did = [c \in Callers |-> {}]
    /\ result = [c \in Callers |-> NoResult]
    /\ ncalls = 0
    /\ clients = <<NewClient("backendA")>>
    /\ shutdownCallbacks = <<1>>
    /\ store = EmptyMap
    /\ ret = NoRet
    /\ mine = <<{}>>
    /\ subscribed = {}
    /\ pending = {}
    /\ AuxInit

ClientNext ==
    \/ \E cl \in 1..Len(clients), x \in Instances, io \in {"ok", "marshal", "publish"} :
            Register(cl, x, io)
    \/ \E cl \in 1..Len(clients), x \in Instances, io \in {"ok", "marshal", "publish"} :
            Update(cl, x, io)
    \/ \E cl \in 1..Len(clients), x \in Instances, io \in {"ok", "remove"} :
            Unregister(cl, x, io)
    \/ \E cl \in 1..Len(clients), closeErr \in BOOLEAN, failed \in SUBSET (Services \X Keys) :
            Destroy(cl, closeErr, failed)
    \/ \E cl \in 1..Len(clients), sn \in Services, readFails \in SUBSET Keys, listErr \in BOOLEAN :
            \E ks \in Orders(GetConfigKeysByGroup(store, sn)) :
                GetInstancesCall(cl, sn, ks, readFails, listErr)

ClientSpec == ClientInit /\ [][ClientNext]_vars

(***************************************************************************)
(* One client querying a registry directory in which files get damaged     *)
(***************************************************************************)
\* the instances the application registers while it queries
QueryInstances ==
    {x \in Instances : x.Healthy /\ x.Metadata = <<>>}

\* something outside the client leaves invalid JSON in the file of (key, group)
Corrupt(key, group) ==
    /\ HasRecord(store, key, group)
    /\ store[group][key] # Garbage
    /\ store' = PublishConfig(store, key, group, Garbage)
    /\ ret' = [NoRet EXCEPT !.op = "Corrupt", !.sn = group]
    /\ UNCHANGED <<auxVars, ctorVars, clients, mine, eventVars>>

QueryNext ==
    \/ \E cl \in 1..Len(clients), x \in QueryInstances : Register(cl, x, "ok")
    \/ \E cl \in 1..Len(clients), x \in QueryInstances : Unregister(cl, x, "ok")
    \/ \E k \in Keys, g \in Services : Corrupt(k, g)
    \/ \E cl \in 1..Len(clients), sn \in Services, readFails \in SUBSET Keys, listErr \in BOOLEAN :
            \E ks \in Orders(GetConfigKeysByGroup(store, sn)) :
                GetInstancesCall(cl, sn, ks, readFails, listErr)

QuerySpec == ClientInit /\ [][QueryNext]_vars

(***************************************************************************)
(* One client and the subscribers of its change events.  The calls are     *)
(* made by the application; nothing in the client runs by itself.          *)
(***************************************************************************)
\* the instances the application registers while listeners are subscribed
ListenerInstances == {x \in Instances : x.Id # ""}

ListenerNext ==
    \/ \E cl \in 1..Len(clients), x \in ListenerInstances, io \in {"ok", "marshal", "publish"} :
            Register(cl, x, io)
    \/ \E cl \in 1..Len(clients), x \in ListenerInstances, io \in {"ok", "marshal", "publish"} :
            Update(cl, x, io)
    \/ \E cl \in 1..Len(clients), x \in ListenerInstances, io \in {"ok", "remove"} :
            Unregister(cl, x, io)
    \/ \E cl \in 1..Len(clients), sn \in Services : AddListener(cl, sn)
    \/ \E cl \in 1..Len(clients), sn \in Services, readFails \in SUBSET Keys, listErr \in BOOLEAN :
            \E ks \in Orders(GetConfigKeysByGroup(store, sn)) :
                DispatchEventByServiceName(cl, sn, ks, readFails, listErr)

ListenerSpec == ClientInit /\ [][ListenerNext]_vars /\ WF_vars(ListenerNext)

(***************************************************************************)
(* newFileSystemServiceDiscovery(name), one step per statement that reads  *)
(* or writes shared state.  pc: "idle" (no call yet), "lookup" (line 66),  *)
(* "lock" (71), "check" (75), "config" (80), "home" (85), "factory" (92),  *)
(* "hook" (101), "listen" (105), "return" (113), "done" (returned).        *)
(***************************************************************************)
FILE_KEY == "file"

\* config.GetBaseConfig().GetServiceDiscoveries: the configured backends
ServiceDiscoveries ==
    [backendA |-> [Protocol |-> FILE_KEY], backendB |-> [Protocol |-> FILE_KEY],
     zkC |-> [Protocol |-> "zookeeper"]]

Names == (DOMAIN ServiceDiscoveries) \cup {"missing"}

\* a check that accepts every configured backend, whatever its protocol
ConfigValidAnyProtocol(name) == name \in DOMAIN ServiceDiscoveries

\* sdc, ok := GetServiceDiscoveries(name); ok && sdc.Protocol == constant.FILE_KEY
ConfigValid(name) ==
    name \in DOMAIN ServiceDiscoveries /\ ServiceDiscoveries[name].Protocol = FILE_KEY

\* the (id, group) pairs of the listeners the constructor attaches: one for every
\* instance GetInstances returns for every name GetServices returns; the reads of
\* the files in unread fail
\* a listener loop that attaches the listeners under the id field of the record
PreSubscriptionsRawId(st, unread) ==
    UNION {
      {<<i.Id, getServiceName(i)>> :
          i \in SeqRange(GetInstances(st, v,
                    CHOOSE ks \in Orders(GetConfigKeysByGroup(st, v)) : TRUE,
                    {k \in GetConfigKeysByGroup(st, v) : <<v, k>> \in unread}, FALSE))} :
      v \in GetServices(st)}

PreSubscriptions(st, unread) ==
    UNION {
      {<<getServiceInstanceId(i), getServiceName(i)>> :
          i \in SeqRange(GetInstances(st, v,
                    CHOOSE ks \in Orders(GetConfigKeysByGroup(st, v)) : TRUE,
                    {k \in GetConfigKeysByGroup(st, v) : <<v, k>> \in unread}, FALSE))} :
      v \in GetServices(st)}

ReturnFrom(c, client, err) ==
    /\ result' = [result EXCEPT ![c] = [client |-> client, err |-> err]]
    /\ pc' = [pc EXCEPT ![c] = "done"]

Does(c, what) == did' = [did EXCEPT ![c] = @ \cup {what}]

\* the other callers whose call for the same name is running
Overlaps(c, name) ==
    {x \in Callers \ {c} : pc[x] \notin {"idle", "done"} /\ arg[x] = name}

\* the clients whose construction has run to its return
Constructed ==
    {i \in 1..Len(clients) :
        \A x \in Callers : cur[x] = i => pc[x] \in {"idle", "done"}}

\* a caller enters newFileSystemServiceDiscovery(name); calls for the same name
\* that run at the same time are marked "concurrent", and a call made after a
\* construction for the name has completed is marked "later"
Call(c, name) ==
    /\ pc[c] \in {"idle", "done"}
    /\ ncalls < MaxCalls
    /\ ncalls' = ncalls + 1
    /\ pc' = [pc EXCEPT ![c] = "lookup"]
    /\ arg' = [arg EXCEPT ![c] = name]
    /\ cur' = [cur EXCEPT ![c] = 0]
    /\ did' = [x \in Callers |->
                  IF x = c
                  THEN (IF Overlaps(c, name) = {} THEN {} ELSE {"concurrent"})
                       \cup (IF \E i \in Constructed : clients[i].name = name
                             THEN {"later"} ELSE {})
                  ELSE IF x \in Overlaps(c, name) THEN did[x] \cup {"concurrent"}
                  ELSE did[x]]
    /\ result' = [result EXCEPT ![c] = NoResult]
    /\ UNCHANGED <<auxVars, instanceMap, held, initLock, clients, shutdownCallbacks, store, ret, mine, eventVars>>

\* instance, ok := instanceMap[name]; if ok { return instance, nil }
Lookup(c) ==
    /\ pc[c] = "lookup"
    /\ IF arg[c] \in DOMAIN instanceMap
       THEN /\ ReturnFrom(c, instanceMap[arg[c]], "")
            /\ Does(c, "fast")
       ELSE /\ pc' = [pc EXCEPT ![c] = "lock"]
            /\ UNCHANGED <<result, did>>
    /\ UNCHANGED <<auxVars, instanceMap, held, initLock, arg, cur, ncalls, clients, shutdownCallbacks,
                   store, ret, mine, eventVars>>

\* a Lock that does not wait for the holder to unlock
LockNoWait(c) ==
    /\ pc[c] = "lock"
    /\ initLock' = c
    /\ held' = instanceMap
    /\ pc' = [pc EXCEPT ![c] = "check"]
    /\ Does(c, "locked")
    /\ UNCHANGED <<auxVars, instanceMap, arg, cur, result, ncalls, clients, shutdownCallbacks,
                   store, ret, mine, eventVars>>

\* initLock.Lock(); defer initLock.Unlock()
Lock(c) ==
    /\ pc[c] = "lock"
    /\ initLock = 0
    /\ initLock' = c
    /\ held' = instanceMap
    /\ pc' = [pc EXCEPT ![c] = "check"]
    /\ Does(c, "locked")
    /\ UNCHANGED <<auxVars, instanceMap, arg, cur, result, ncalls, clients, shutdownCallbacks,
                   store, ret, mine, eventVars>>

\* double check
DoubleCheck(c) ==
    /\ pc[c] = "check"
    /\ IF arg[c] \in DOMAIN instanceMap
       THEN /\ ReturnFrom(c, instanceMap[arg[c]], "")
            /\ initLock' = 0
       ELSE /\ pc' = [pc EXCEPT ![c] = "config"]
            /\ UNCHANGED <<result, initLock>>
    /\ UNCHANGED <<auxVars, instanceMap, held, arg, cur, did, ncalls, clients, shutdownCallbacks,
                   store, ret, mine, eventVars>>

\* the configuration of the name is resolved and validated
ResolveConfig(c) ==
    /\ pc[c] = "config"
    /\ IF ConfigValid(arg[c])
       THEN /\ pc' = [pc EXCEPT ![c] = "home"]
            /\ UNCHANGED <<result, initLock>>
       ELSE /\ ReturnFrom(c, 0, "config")
            /\ initLock' = 0
    /\ UNCHANGED <<auxVars, instanceMap, held, arg, cur, did, ncalls, clients, shutdownCallbacks,
                   store, ret, mine, eventVars>>

\* rp, err := file.Home()
Home(c, ok) ==
    /\ pc[c] = "home"
    /\ IF ok
       THEN /\ pc' = [pc EXCEPT ![c] = "factory"]
            /\ UNCHANGED <<result, initLock, did>>
       ELSE /\ ReturnFrom(c, 0, "home")
            /\ initLock' = 0
            /\ Does(c, "homeErr")
    /\ UNCHANGED <<auxVars, instanceMap, held, arg, cur, ncalls, clients, shutdownCallbacks,
                   store, ret, mine, eventVars>>

\* c, err := fdcf.GetDynamicConfiguration(&url); on success sd is allocated
Factory(c, ok) ==
    /\ pc[c] = "factory"
    /\ IF ok
       THEN /\ clients' = Append(clients, NewClient(arg[c]))
            /\ mine' = Append(mine, {})
            /\ cur' = [cur EXCEPT ![c] = Len(clients) + 1]
            /\ pc' = [pc EXCEPT ![c] = "hook"]
            /\ Does(c, "alloc")
            /\ UNCHANGED <<result, initLock>>
       ELSE /\ ReturnFrom(c, 0, "factory")
            /\ initLock' = 0
            /\ Does(c, "factoryErr")
            /\ UNCHANGED <<clients, mine, cur>>
    /\ UNCHANGED <<auxVars, instanceMap, held, arg, ncalls, shutdownCallbacks, store, ret, eventVars>>

\* extension.AddCustomShutdownCallback(func() { sd.Destroy() })
Hook(c) ==
    /\ pc[c] = "hook"
    /\ shutdownCallbacks' = Append(shutdownCallbacks, cur[c])
    /\ pc' = [pc EXCEPT ![c] = "listen"]
    /\ Does(c, "hook")
    /\ UNCHANGED <<auxVars, instanceMap, held, initLock, arg, cur, result, ncalls, clients,
                   store, ret, mine, eventVars>>

\* the loop that attaches a listener for every instance already in the store
Listen(c, unread) ==
    /\ pc[c] = "listen"
    /\ unread \subseteq {<<v, k>> : v \in GetServices(store), k \in Keys}
    /\ \A f \in unread : HasRecord(store, f[2], f[1])
    /\ clients' = [clients EXCEPT ![cur[c]].listeners = @ \cup PreSubscriptions(store, unread)]
    /\ pc' = [pc EXCEPT ![c] = "return"]
    /\ did' = [did EXCEPT ![c] = @ \cup {"listen"}
                                   \cup (IF unread = {} THEN {} ELSE {"readErr"})]
    /\ UNCHANGED <<auxVars, instanceMap, held, initLock, arg, cur, result, ncalls, shutdownCallbacks,
                   store, ret, mine, eventVars>>

\* return sd, nil (the deferred Unlock runs)
Return(c) ==
    /\ pc[c] = "return"
    /\ ReturnFrom(c, cur[c], "")
    /\ initLock' = 0
    /\ UNCHANGED <<auxVars, instanceMap, held, arg, cur, did, ncalls, clients, shutdownCallbacks,
                   store, ret, mine, eventVars>>

\* instances that were registered before the process started
OldInstance1 ==
    [Id |-> "a", ServiceName |-> "S1", Host |-> "h1", Port |-> 20880,
     Healthy |-> TRUE, Metadata |-> <<>>]

OldInstance2 ==
    [Id |-> "", ServiceName |-> "S1", Host |-> "h1", Port |-> 20880,
     Healthy |-> FALSE, Metadata |-> << <<"k", "v1">> >>]

\* the registry directory the process finds: empty, or two records and a broken file
InitialStores ==
    {EmptyMap,
     PublishConfig(RegisterStore(RegisterStore(EmptyMap, OldInstance1), OldInstance2),
                   "a", "S2", Garbage)}

CtorInit ==
    /\ instanceMap = EmptyMap
    /\ initLock = 0
    /\ held = EmptyMap
    /\ pc = [c \in Callers |-> "idle"]
    /\ arg = [c \in Callers |-> ""]
    /\ cur = [c \in Callers |-> 0]
    /\ did = [c \in Callers |-> {}]
    /\ result = [c \in Callers |-> NoResult]
    /\ ncalls = 0
    /\ clients = <<>>
    /\ shutdownCallbacks = <<>>
    /\ store \in InitialStores
    /\ ret = NoRet
    /\ mine = <<>>
    /\ subscribed = {}
    /\ pending = {}
    /\ AuxInit

CtorNext ==
    \/ \E c \in Callers, name \in Names : Call(c, name)
    \/ \E c \in Callers : Lookup(c)
    \/ \E c \in Callers : Lock(c)
    \/ \E c \in Callers : DoubleCheck(c)
    \/ \E c \in Callers : ResolveConfig(c)
    \/ \E c \in Callers, ok \in BOOLEAN : Home(c, ok)
    \/ \E c \in Callers, ok \in BOOLEAN : Factory(c, ok)
    \/ \E c \in Callers : Hook(c)
    \/ \E c \in Callers, unread \in SUBSET (Services \X Keys) : Listen(c, unread)
    \/ \E c \in Callers : Return(c)

CtorSpec == CtorInit /\ [][CtorNext]_vars

(***************************************************************************)
(* Properties of the calls on one client                                   *)
(***************************************************************************)
RetInstance == ret.inst[1]
RetId == getServiceInstanceId(RetInstance)
RetSucceeded(ops) == ret.op \in ops /\ ret.err = ""

\* C4: after a successful Register(x) fileMap has an entry under x's computed id,
\* and after a successful Unregister(x) it has none under that computed id,
\* also for an instance whose id is empty.
C4_FileMapFollowsRegistrations ==
    /\ RetSucceeded({"Register", "Update"}) =>
            /\ RetId \in DOMAIN clients[ret.cl].fileMap
            /\ clients[ret.cl].fileMap[RetId] = GetPath(RetId, ret.sn)
    /\ RetSucceeded({"Unregister"}) => RetId \notin DOMAIN clients[ret.cl].fileMap

\* C5: after Destroy, when no file removal failed, no record this client
\* registered and has not unregistered since is left in the store.
C5_DestroyReleasesRegistered ==
    (ret.op = "Destroy" /\ ret.failed = {}) =>
        \A r \in mine[ret.cl] : ~HasRecord(store, r[2], r[1])

\* C6: Destroy returns an error exactly when closing the store failed; failed
\* removals of tracked files never make it fail.
C6_DestroyPropagatesCloseError ==
    ret.op = "Destroy" => (ret.err # "" <=> ret.fault = "close")

\* the record Register found under its key held other metadata than the new instance
OverwroteOtherMetadata ==
    /\ RetSucceeded({"Register", "Update"})
    /\ ret.prev # <<>>
    /\ UnmarshalOK(ret.prev[1])
    /\ Unmarshal(ret.prev[1]).Metadata # RetInstance.Metadata

\* C8: registering over a record of the same (serviceName, id) with other metadata
\* leaves exactly one record of that id in the service, equal to the second
\* payload, and one fileMap entry for the id.
C8_IdempotentOverwrite ==
    OverwroteOtherMetadata =>
        /\ \A out \in Listings(store, ret.sn) :
              /\ Cardinality({i \in 1..Len(out) : getServiceInstanceId(out[i]) = RetId}) = 1
              /\ \A i \in 1..Len(out) :
                    getServiceInstanceId(out[i]) = RetId => out[i] = RetInstance
        /\ RetId \in DOMAIN clients[ret.cl].fileMap
        /\ clients[ret.cl].fileMap[RetId] = GetPath(RetId, ret.sn)

C8_Witness == OverwroteOtherMetadata /\ ret.op = "Register"

\* C9: after a successful Register(x), GetInstances(x.serviceName) (its reads not
\* failing) contains a record equal to x in every field.
C9_RoundTrip ==
    RetSucceeded({"Register"}) =>
        \A out \in Listings(store, ret.sn) : RetInstance \in SeqRange(out)

C9_Witness ==
    RetSucceeded({"Register"}) /\ RetInstance.Id = "" /\ RetInstance.Healthy

\* C10: after a successful Unregister(x), GetInstances(x.serviceName) holds no
\* instance of x's (computed) id; an Unregister of an absent record, the store not
\* failing, returns no error and leaves the store unchanged.
C10_UnregisterRemoves ==
    [][ret'.op = "Unregister" =>
          LET x == ret'.inst[1]
          IN  /\ ret'.err = "" =>
                    \A out \in Listings(store', ret'.sn) :
                        \A i \in 1..Len(out) :
                            getServiceInstanceId(out[i]) # getServiceInstanceId(x)
              /\ (ret'.prev = <<>> /\ ret'.fault = "ok") =>
                    (ret'.err = "" /\ store' = store)]_vars

\* an Unregister of a record that a previous Unregister had removed
C10_Witness ==
    /\ RetSucceeded({"Unregister"})
    /\ ret.prev = <<>>
    /\ ret.sn \in DOMAIN store
    /\ RetInstance.Id = ""

\* C7: once a listener is added for service name S, every successful Register,
\* Update or Unregister of an instance of S is eventually followed by a call of
\* the listener with the full current instance list of S.
C7_ListenerEventuallyNotified ==
    \A s \in Services : (s \in pending) ~> (s \notin pending)

(***************************************************************************)
(* Properties of newFileSystemServiceDiscovery                             *)
(***************************************************************************)
Succeeded(c) == pc[c] = "done" /\ result[c].err = "" /\ result[c].client # 0

\* C1: callers that invoke newFileSystemServiceDiscovery concurrently with the
\* same name cause one construction, and all of them receive the same client.
C1_SingleConstruction ==
    \A c1, c2 \in Callers :
        (c1 # c2 /\ arg[c1] = arg[c2]
           /\ "concurrent" \in did[c1] /\ "concurrent" \in did[c2]) =>
            /\ ~("alloc" \in did[c1] /\ "alloc" \in did[c2])
            /\ (Succeeded(c1) /\ Succeeded(c2)) => result[c1].client = result[c2].client

\* C2: after a call returned a client for a name, instanceMap maps the name to
\* that client (so that every later call returns it without constructing).
C2_ReturnedClientIsCached ==
    \A c \in Callers :
        Succeeded(c) =>
            /\ arg[c] \in DOMAIN instanceMap
            /\ instanceMap[arg[c]] = result[c].client

\* the call of c cannot construct: no configuration, another protocol, no home
\* path, or a failing store factory
CannotConstruct(c) ==
    \/ arg[c] \notin DOMAIN ServiceDiscoveries
    \/ ServiceDiscoveries[arg[c]].Protocol # FILE_KEY
    \/ "homeErr" \in did[c]
    \/ "factoryErr" \in did[c]

\* C3: a call that cannot construct returns an error and a nil client; a call
\* returning an error has allocated no client, registered no shutdown callback,
\* attached no listener, left instanceMap as it found it, and released the lock.
C3_ConstructionAllOrNothing ==
    [][\A c \in Callers :
          (pc[c] # "done" /\ pc'[c] = "done") =>
              /\ (CannotConstruct(c))' => result'[c].err # ""
              /\ result'[c].err # "" =>
                    /\ result'[c].client = 0
                    /\ cur'[c] = 0
                    /\ did'[c] \cap {"alloc", "hook", "listen"} = {}
                    /\ clients' = clients
                    /\ shutdownCallbacks' = shutdownCallbacks
                    /\ instanceMap' = held
                    /\ initLock' = 0]_vars

\* a call failed in the store factory and another caller then took the lock
C3_Witness ==
    \E c1, c2 \in Callers :
        /\ pc[c1] = "done" /\ result[c1].err = "factory"
        /\ initLock = c2 /\ arg[c2] = arg[c1]

(***************************************************************************)
(* Scenario and key derivation                                             *)
(***************************************************************************)
\* the decimal text of the ports in use, written out
DecimalText == (20880 :> "20880")

\* the key the store is addressed with for instance x
ExpectedKey(x) == IF x.Id # "" THEN x.Id ELSE x.Host \o "." \o DecimalText[x.Port]

RegisteredEmptyIdFirst ==
    /\ ret'.op = "Register" /\ ret'.err = ""
    /\ ret'.inst[1].Id = ""
    /\ GetConfigKeysByGroup(store, ret'.sn) = {}

UnregisteredOnlyEmptyId ==
    /\ ret'.op = "Unregister" /\ ret'.err = ""
    /\ ret'.inst[1].Id = ""
    /\ GetConfigKeysByGroup(store, ret'.sn) = {ExpectedKey(ret'.inst[1])}

\* C11 (as amended): from a store with no record of the service, Register of an
\* instance with empty id, host h and port p makes GetServices contain the service
\* name and GetInstances return exactly one instance, stored under the key
\* h.p and with computed id h.p; Unregister of it makes GetInstances return the
\* empty sequence.
C11_Scenario ==
    [][/\ RegisteredEmptyIdFirst =>
            /\ ret'.sn \in GetServices(store')
            /\ GetConfigKeysByGroup(store', ret'.sn) = {ExpectedKey(ret'.inst[1])}
            /\ \A out \in Listings(store', ret'.sn) :
                    Len(out) = 1 /\ getServiceInstanceId(out[1]) = ExpectedKey(ret'.inst[1])
       /\ UnregisteredOnlyEmptyId => Listings(store', ret'.sn) = {<<>>}]_vars

\* C11 as stated: the one instance GetInstances returns has the id h.p.
C11_ScenarioReturnedId ==
    [][RegisteredEmptyIdFirst =>
            \A out \in Listings(store', ret'.sn) :
                Len(out) = 1 /\ out[1].Id = ExpectedKey(ret'.inst[1])]_vars

\* the scenario has run to its end: the empty-id instance was unregistered and
\* the service has no record left
C11_Witness ==
    /\ RetSucceeded({"Unregister"})
    /\ RetInstance.Id = ""
    /\ ret.prev # <<>>
    /\ ret.sn \in GetServices(store)
    /\ GetConfigKeysByGroup(store, ret.sn) = {}

\* the files of the store that differ between two states
ChangedFiles(st1, st2) ==
    {f \in Services \X (Keys \cup Ids) : FileAt(st1, f[2], f[1]) # FileAt(st2, f[2], f[1])}

\* C12: Register and Unregister address the store with key = the id when it is
\* not empty and host.port (decimal) when it is, in the group of the service name.
C12_DefaultIdDerivation ==
    [][/\ (ret'.op \in {"Register", "Update"} /\ ret'.err = "") =>
            /\ HasRecord(store', ExpectedKey(ret'.inst[1]), ret'.inst[1].ServiceName)
            /\ ChangedFiles(store, store') \subseteq
                    {<<ret'.inst[1].ServiceName, ExpectedKey(ret'.inst[1])>>}
       /\ (ret'.op = "Unregister" /\ ret'.err = "") =>
            /\ ~HasRecord(store', ExpectedKey(ret'.inst[1]), ret'.inst[1].ServiceName)
            /\ ChangedFiles(store, store') \subseteq
                    {<<ret'.inst[1].ServiceName, ExpectedKey(ret'.inst[1])>>}]_vars

\* an instance without id was registered and then unregistered under the same key
C12_Witness ==
    /\ RetSucceeded({"Unregister"})
    /\ RetInstance.Id = ""
    /\ ret.prev # <<>>
    /\ UnmarshalOK(ret.prev[1])
    /\ Unmarshal(ret.prev[1]).Id = ""

(***************************************************************************)
(* Write errors                                                            *)
(***************************************************************************)
\* C14: when serialization or PublishConfig fails, Register and Update return an
\* error and leave fileMap unchanged; when RemoveConfig fails, Unregister returns
\* an error and leaves fileMap unchanged.
C14_WriteErrorsPropagate ==
    [][(ret'.op \in {"Register", "Update", "Unregister"} /\ ret'.fault # "ok") =>
            /\ ret'.err # ""
            /\ clients'[ret'.cl].fileMap = clients[ret'.cl].fileMap]_vars

\* a write failed on a client that tracks a file, for an instance it does not track
C14_Witness ==
    /\ ret.op \in {"Register", "Update"}
    /\ ret.fault = "publish"
    /\ ret.err # ""
    /\ clients[ret.cl].fileMap # EmptyMap
    /\ getServiceInstanceId(RetInstance) \notin DOMAIN clients[ret.cl].fileMap

(***************************************************************************)
(* The construction lock                                                   *)
(***************************************************************************)
\* C15: once a construction for a name has completed successfully, a later call
\* for that name returns on the fast path: it never waits for initLock and never
\* acquires it.
C15_LaterCallsLockFree ==
    \A c \in Callers :
        "later" \in did[c] => (pc[c] # "lock" /\ "locked" \notin did[c])

\* the section from the double check to the return
InSection(c) ==
    pc[c] \in {"check", "config", "home", "factory", "hook", "listen", "return"}

\* C16: at most one caller is between the double check and its return, whatever
\* the names; that caller holds initLock for the whole section, and the lock is
\* released on every return path.
C16_ConstructionMutex ==
    /\ \A c \in Callers : InSection(c) <=> initLock = c
    /\ \A c1, c2 \in Callers : (InSection(c1) /\ InSection(c2)) => c1 = c2
    /\ (\A c \in Callers : pc[c] \in {"idle", "done"}) => initLock = 0

\* one caller attaches listeners while a caller for another name waits for the lock
C16_Witness ==
    \E c1, c2 \in Callers :
        /\ pc[c1] = "listen"
        /\ pc[c2] = "lock"
        /\ arg[c1] # arg[c2]
        /\ initLock = c1

(***************************************************************************)
(* Pre-subscription                                                        *)
(***************************************************************************)
\* the (computed id, service name) pairs of the records of the store that decode
DecodablePairs(st) ==
    {<<ExpectedKey(Unmarshal(st[f[1]][f[2]])), Unmarshal(st[f[1]][f[2]]).ServiceName>> :
        f \in {g \in Services \X (Keys \cup Ids) :
                    HasRecord(st, g[2], g[1]) /\ UnmarshalOK(st[g[1]][g[2]])}}

C20_HooksDoNotAccumulate ==
    initLock = 0 =>
        Len(shutdownCallbacks) =
            Cardinality({clients[i].name : i \in Constructed})

(***************************************************************************)
(* Partial failures of GetInstances                                        *)
(***************************************************************************)
\* the keys of the group whose record was read and decodes in the last call
ReadAndDecoded ==
    {k \in GetConfigKeysByGroup(store, ret.sn) :
        GetPath(k, ret.sn) \notin ret.failed /\ UnmarshalOK(store[ret.sn][k])}

\* C13: GetInstances returns exactly the records of the group that can be read and
\* decoded, skipping a record whose read fails or whose content is invalid JSON;
\* when the group has no keys, does not exist or the key listing fails, the
\* result is an empty sequence that is not nil.
C13_PartialFailureTolerance ==
    ret.op = "GetInstances" =>
        /\ ~ret.nil
        /\ ret.fault = "list" => ret.out = <<>>
        /\ GetConfigKeysByGroup(store, ret.sn) = {} => ret.out = <<>>
        /\ ret.sn \notin GetServices(store) => ret.out = <<>>
        /\ ret.fault # "list" =>
                /\ Len(ret.out) = Cardinality(ReadAndDecoded)
                /\ SeqRange(ret.out) = {Unmarshal(store[ret.sn][k]) : k \in ReadAndDecoded}

\* the group holds a damaged record and a valid one, and the call returned the
\* valid one
C13_Witness ==
    /\ ret.op = "GetInstances"
    /\ ret.fault = "ok"
    /\ Len(ret.out) = 1
    /\ \E k \in GetConfigKeysByGroup(store, ret.sn) : store[ret.sn][k] = Garbage
    /\ Cardinality(GetConfigKeysByGroup(store, ret.sn)) = 2

(***************************************************************************)
(* MetricConfig (package config).  Durations are counted in milliseconds.  *)
(***************************************************************************)
\* time.Second
Second == 1000

\* defaultGlobalInterval = 60 * time.Second
defaultGlobalInterval == 60 * Second

\* the intervals a configuration file can hold
Durations == {0 - Second, 0, 500, Second, Second + 1, 2 * Second, defaultGlobalInterval}

\* the metric levels
Levels == {1, 2}

\* the LevelInterval maps: a value for some of the levels
LevelIntervals == UNION {[L -> Durations] : L \in SUBSET Levels}

MetricConfigs ==
    {[GlobalInterval |-> g, LevelIntervalNil |-> FALSE, LevelInterval |-> m] :
        g \in Durations, m \in LevelIntervals}
    \cup {[GlobalInterval |-> g, LevelIntervalNil |-> TRUE, LevelInterval |-> EmptyMap] :
        g \in Durations}

\* if mc.GlobalInterval <= time.Second { return defaultGlobalInterval }
GetGlobalInterval(m) ==
    IF m.GlobalInterval <= Second THEN defaultGlobalInterval ELSE m.GlobalInterval

GetLevelInterval(m, metricLevel) ==
    IF m.LevelIntervalNil THEN GetGlobalInterval(m)
    ELSE IF metricLevel \in DOMAIN m.LevelInterval /\ m.LevelInterval[metricLevel] >= Second
         THEN m.LevelInterval[metricLevel]
         ELSE GetGlobalInterval(m)

GetGlobalIntervalCall ==
    /\ metricRet' = [op |-> "GetGlobalInterval", level |-> 0, out |-> GetGlobalInterval(mc)]
    /\ UNCHANGED <<ctorVars, clients, store, ret, mine, eventVars, work, mc>>

GetLevelIntervalCall(metricLevel) ==
    /\ metricRet' = [op |-> "GetLevelInterval", level |-> metricLevel,
                     out |-> GetLevelInterval(mc, metricLevel)]
    /\ UNCHANGED <<ctorVars, clients, store, ret, mine, eventVars, work, mc>>

MetricInit ==
    /\ instanceMap = EmptyMap
    /\ initLock = 0
    /\ held = EmptyMap
    /\ pc = [c \in Callers |-> "idle"]
    /\ arg = [c \in Callers |-> ""]
    /\ cur = [c \in Callers |-> 0]
    /\ did = [c \in Callers |-> {}]
    /\ result = [c \in Callers |-> NoResult]
    /\ ncalls = 0
    /\ clients = <<>>
    /\ shutdownCallbacks = <<>>
    /\ store = EmptyMap
    /\ ret = NoRet
    /\ mine = <<>>
    /\ subscribed = {}
    /\ pending = {}
    /\ work = [g \in Goroutines |-> Idle]
    /\ mc \in MetricConfigs
    /\ metricRet = NoMetricRet

MetricNext ==
    \/ GetGlobalIntervalCall
    \/ \E metricLevel \in Levels \cup {3} : GetLevelIntervalCall(metricLevel)

MetricSpec == MetricInit /\ [][MetricNext]_vars

\* C19: GetGlobalInterval returns the configured GlobalInterval when it is at
\* least 1 second and 60 seconds otherwise; GetLevelInterval returns the value
\* configured for the level when it is present and at least 1 second, and
\* otherwise what GetGlobalInterval returns.
C19_IntervalDefaults ==
    /\ metricRet.op = "GetGlobalInterval" =>
            metricRet.out = IF mc.GlobalInterval >= Second THEN mc.GlobalInterval
                            ELSE 60 * Second
    /\ metricRet.op = "GetLevelInterval" =>
            metricRet.out =
                IF /\ ~mc.LevelIntervalNil
                   /\ metricRet.level \in DOMAIN mc.LevelInterval
                   /\ mc.LevelInterval[metricRet.level] >= Second
                THEN mc.LevelInterval[metricRet.level]
                ELSE GetGlobalInterval(mc)

(***************************************************************************)
(* Goroutines calling one client at the same time.  A call is a store      *)
(* call followed by an access to fileMap; fileSystemServiceDiscovery has   *)
(* no lock, so the steps of different goroutines interleave.  Accesses to  *)
(* a Go map that overlap are a data race: the access may take effect, be   *)
(* lost, or end the process (fatal error: concurrent map writes).          *)
(***************************************************************************)
\* the instances the goroutines register
RaceInstances == {x \in Instances : x.ServiceName = "S1" /\ x.Healthy /\ x.Metadata = <<>>}

\* goroutine g calls Register, Update or Unregister on client cl
Go(g, op, cl, instance) ==
    /\ work[g] = Idle
    /\ Live(cl)
    /\ work' = [work EXCEPT ![g] = [op |-> op, inst |-> <<instance>>,
                                    step |-> "io", raced |-> FALSE]]
    /\ UNCHANGED <<ctorVars, clients, store, ret, mine, eventVars, mc, metricRet>>

\* goroutine g calls Destroy on client cl
GoDestroy(g, cl) ==
    /\ work[g] = Idle
    /\ Live(cl)
    /\ work' = [work EXCEPT ![g] = [op |-> "Destroy", inst |-> <<>>,
                                    step |-> "io", raced |-> FALSE]]
    /\ UNCHANGED <<ctorVars, clients, store, ret, mine, eventVars, mc, metricRet>>

\* the store call of the running call: PublishConfig (line 149), RemoveConfig
\* (line 191) or Close (line 126); a failed PublishConfig or RemoveConfig returns
\* the error, the result of Close is dropped
StoreCall(g, ok) ==
    /\ work[g].step = "io"
    /\ IF work[g].op = "Destroy"
       THEN /\ work' = [work EXCEPT ![g].step = "map"]
            /\ UNCHANGED store
       ELSE IF ~ok
       THEN /\ work' = [work EXCEPT ![g] = Idle]
            /\ UNCHANGED store
       ELSE /\ work' = [work EXCEPT ![g].step = "map"]
            /\ store' = IF work[g].op = "Unregister"
                        THEN UnregisterStore(store, work[g].inst[1])
                        ELSE RegisterStore(store, work[g].inst[1])
    /\ UNCHANGED <<ctorVars, clients, ret, mine, eventVars, mc, metricRet>>

\* the goroutines that are inside an access to fileMap
InMap == {g \in Goroutines : work[g].step = "inmap"}

\* goroutine g starts its access to fileMap: the assignment (line 152), the delete
\* (line 194) or the range loop (line 128)
MapAccessBegin(g) ==
    /\ work[g].step = "map"
    /\ work' = [x \in Goroutines |->
                    IF x = g THEN [work[g] EXCEPT !.step = "inmap", !.raced = (InMap # {})]
                    ELSE IF x \in InMap THEN [work[x] EXCEPT !.raced = TRUE]
                    ELSE work[x]]
    /\ UNCHANGED <<ctorVars, clients, store, ret, mine, eventVars, mc, metricRet>>

\* goroutine g finishes its access to fileMap of client cl and its call returns;
\* failed: the paths the loop of Destroy did not remove
MapAccessEnd(g, cl, outcome, failed) ==
    /\ work[g].step = "inmap"
    /\ ~work[g].raced => outcome = "applied"
    /\ work[g].op = "Destroy" => outcome # "lost"
    /\ failed \subseteq MapValues(clients[cl].fileMap)
    /\ work[g].op # "Destroy" => failed = {}
    /\ IF outcome = "crash"
       THEN /\ work' = [x \in Goroutines |-> [work[x] EXCEPT !.step = "crashed"]]
            /\ UNCHANGED <<clients, store>>
       ELSE /\ work' = [work EXCEPT ![g] = Idle]
            /\ IF work[g].op = "Destroy"
               THEN /\ store' = DestroyStore(store, clients[cl].fileMap, failed)
                    /\ clients' = [clients EXCEPT ![cl].destroyed = TRUE]
               ELSE /\ UNCHANGED store
                    /\ clients' = [clients EXCEPT ![cl].fileMap =
                            IF outcome = "lost" THEN @
                            ELSE IF work[g].op = "Unregister"
                                 THEN UnregisterFileMap(@, work[g].inst[1])
                                 ELSE RegisterFileMap(@, work[g].inst[1])]
    /\ UNCHANGED <<ctorVars, ret, mine, eventVars, mc, metricRet>>

RaceNext ==
    \/ \E g \in Goroutines, cl \in 1..Len(clients), x \in RaceInstances,
           op \in {"Register", "Update", "Unregister"} : Go(g, op, cl, x)
    \/ \E g \in Goroutines, cl \in 1..Len(clients) : GoDestroy(g, cl)
    \/ \E g \in Goroutines, ok \in BOOLEAN : StoreCall(g, ok)
    \/ \E g \in Goroutines : MapAccessBegin(g)
    \/ \E g \in Goroutines, cl \in 1..Len(clients),
           outcome \in {"applied", "lost", "crash"}, failed \in SUBSET (Services \X Keys) :
            MapAccessEnd(g, cl, outcome, failed)

RaceSpec == ClientInit /\ [][RaceNext]_vars

\* C18: under every interleaving of concurrent Register, Update, Unregister and
\* Destroy calls on one client, no two of them read or write fileMap at the
\* same time (which the sequential outcome of the claim presupposes).
C18_FileMapAccessesExclusive ==
    \A g1, g2 \in Goroutines :
        (work[g1].step = "inmap" /\ work[g2].step = "inmap") => g1 = g2

====
